---- MODULE Spec2Model ----
(***************************************************************************)
(* Model of launcher.py: launch-scheme classes (LaunchMode and its         *)
(* subclasses), the command-line normalizer fixWindowsPath, and the        *)
(* platform-resolved PortableLauncher binding.                             *)
(*                                                                         *)
(* Text is modelled as a sequence of one-character strings, so that        *)
(* splitting, joining and path normalization are computed as the code      *)
(* computes them.                                                          *)
(***************************************************************************)
EXTENDS Integers, Sequences, FiniteSets, TLC

\* ---------------------------------------------------------------- bounds
MaxCmdLen == 3
MaxInvocations == 2
MaxConstructions == 2

\* ------------------------------------------------------------- text model
Alphabet == {"a", ".", "/", "\\", " "}

RECURSIVE StringsUpTo(_)
StringsUpTo(n) ==
    IF n = 0 THEN {<<>>}
    ELSE LET shorter == StringsUpTo(n - 1)
         IN  shorter \cup {Append(s, c) : s \in {t \in shorter : Len(t) = n - 1}, c \in Alphabet}

SP == <<" ">>
SLASH == <<"/">>
BSLASH == <<"\\">>
DOT == <<".">>
DOTDOT == <<".", ".">>

\* str.lstrip(): drop leading whitespace
RECURSIVE LStrip(_)
LStrip(s) ==
    IF s # <<>> /\ Head(s) = " " THEN LStrip(Tail(s)) ELSE s

\* str.lstrip(c): drop leading occurrences of the character c
RECURSIVE LStripChar(_, _)
LStripChar(s, c) ==
    IF s # <<>> /\ Head(s) = c THEN LStripChar(Tail(s), c) ELSE s

\* str.split(c): split on every single occurrence of c, keeping empty pieces
RECURSIVE SplitOn(_, _)
SplitOn(s, c) ==
    IF s = <<>> THEN << <<>> >>
    ELSE LET r == SplitOn(Tail(s), c)
         IN  IF Head(s) = c THEN << <<>> >> \o r
             ELSE << <<Head(s)>> \o Head(r) >> \o Tail(r)

\* str.split(): split on runs of whitespace, no empty pieces
SplitWs(s) ==
    SelectSeq(SplitOn(s, " "), LAMBDA t : t # <<>>)

\* sep.join(parts)
RECURSIVE Join(_, _)
Join(parts, sep) ==
    IF parts = <<>> THEN <<>>
    ELSE IF Len(parts) = 1 THEN parts[1]
    ELSE parts[1] \o sep \o Join(Tail(parts), sep)

\* str.replace(old, new) for single characters
Replace(s, old, new) ==
    [i \in 1..Len(s) |-> IF s[i] = old THEN new ELSE s[i]]

StartsWith(s, p) ==
    Len(s) >= Len(p) /\ SubSeq(s, 1, Len(p)) = p

\* str.find(c, start) with a 0-based start; 0-based index, or -1
Find(s, c, start) ==
    LET hits == {i \in (start + 1)..Len(s) : s[i] = c}
    IN  IF hits = {} THEN -1
        ELSE (CHOOSE i \in hits : \A j \in hits : i <= j) - 1

\* ---------------------------------------------------- os.path.normpath
\* posixpath.normpath: one component of the loop over path.split('/')
PosixComp(new, comp, initial) ==
    IF comp = <<>> \/ comp = DOT THEN new
    ELSE IF \/ comp # DOTDOT
            \/ (initial = 0 /\ new = <<>>)
            \/ (new # <<>> /\ new[Len(new)] = DOTDOT)
         THEN Append(new, comp)
    ELSE IF new # <<>> THEN SubSeq(new, 1, Len(new) - 1)
    ELSE new

RECURSIVE PosixComps(_, _, _)
PosixComps(new, comps, initial) ==
    IF comps = <<>> THEN new
    ELSE PosixComps(PosixComp(new, Head(comps), initial), Tail(comps), initial)

PosixNormpath(path) ==
    IF path = <<>> THEN DOT
    ELSE LET initial == IF ~StartsWith(path, SLASH) THEN 0
                        ELSE IF StartsWith(path, SLASH \o SLASH)
                                /\ ~StartsWith(path, SLASH \o SLASH \o SLASH)
                             THEN 2
                        ELSE 1
             comps == PosixComps(<<>>, SplitOn(path, "/"), initial)
             body == Join(comps, SLASH)
             res == [i \in 1..initial |-> "/"] \o body
         IN  IF res = <<>> THEN DOT ELSE res

\* ntpath.splitdrive, for paths without a drive letter (no ':' in Alphabet)
NtSplitdrive(p) ==
    IF Len(p) >= 2 /\ SubSeq(p, 1, 2) = BSLASH \o BSLASH
    THEN LET index == Find(p, "\\", 2)
         IN  IF index = -1 THEN <<p, <<>>>>
             ELSE LET index2 == Find(p, "\\", index + 1)
                  IN  IF index2 = -1 THEN <<p, <<>>>>
                      ELSE <<SubSeq(p, 1, index2), SubSeq(p, index2 + 1, Len(p))>>
    ELSE <<<<>>, p>>

NtComp(new, comp, prefix) ==
    IF comp = <<>> \/ comp = DOT THEN new
    ELSE IF comp = DOTDOT
         THEN IF new # <<>> /\ new[Len(new)] # DOTDOT
              THEN SubSeq(new, 1, Len(new) - 1)
              ELSE IF new = <<>> /\ prefix # <<>> /\ prefix[Len(prefix)] = "\\"
              THEN new
              ELSE Append(new, comp)
    ELSE Append(new, comp)

RECURSIVE NtComps(_, _, _)
NtComps(new, comps, prefix) ==
    IF comps = <<>> THEN new
    ELSE NtComps(NtComp(new, Head(comps), prefix), Tail(comps), prefix)

NtNormpath(path) ==
    LET p == Replace(path, "/", "\\")
        sd == NtSplitdrive(p)
        rooted == StartsWith(sd[2], BSLASH)
        prefix == IF rooted THEN sd[1] \o BSLASH ELSE sd[1]
        rest == IF rooted THEN LStripChar(sd[2], "\\") ELSE sd[2]
        comps0 == NtComps(<<>>, SplitOn(rest, "\\"), prefix)
        comps == IF prefix = <<>> /\ comps0 = <<>> THEN <<DOT>> ELSE comps0
    IN  prefix \o Join(comps, BSLASH)


\* ------------------------------------------------------------------ hosts
\* A host is what the module reads from its environment: sys.platform,
\* sys.executable, the flavour of os.path, and which attributes of os exist.
None == "None"

Hosts ==
    { [platform |-> <<"w", "i", "n", "3", "2">>, nt |-> TRUE,
       fork |-> FALSE, startfile |-> TRUE, P_DETACH |-> TRUE,
       executable |-> <<"C", ":", "\\", "p", "y", ".", "e", "x", "e">>],
      [platform |-> <<"l", "i", "n", "u", "x">>, nt |-> FALSE,
       fork |-> TRUE, startfile |-> FALSE, P_DETACH |-> FALSE,
       executable |-> <<"/", "b", "i", "n", "/", "p", "y">>],
      [platform |-> <<"c", "y", "g", "w", "i", "n">>, nt |-> FALSE,
       fork |-> TRUE, startfile |-> FALSE, P_DETACH |-> FALSE,
       executable |-> <<"/", "b", "i", "n", "/", "p", "y">>] }

\* s[:n]
Prefix(s, n) ==
    SubSeq(s, 1, IF Len(s) < n THEN Len(s) ELSE n)

\* sys.platform[:3] == 'win'
IsWin(h) ==
    Prefix(h.platform, 3) = <<"w", "i", "n">>

pyfile(h) ==
    IF IsWin(h) THEN <<"p", "y", "t", "h", "o", "n", ".", "e", "x", "e">>
    ELSE <<"p", "y", "t", "h", "o", "n">>

pypath(h) ==
    h.executable

normpath(h, path) ==
    IF h.nt THEN NtNormpath(path) ELSE PosixNormpath(path)

fixWindowsPath(h, cmdline) ==
    LET splitLine == SplitOn(LStrip(cmdline), " ")
        fixedPath == normpath(h, splitLine[1])
    IN  Join(<<fixedPath>> \o Tail(splitLine), <<>>)

\* ---------------------------------------------------------------- classes
Classes ==
    {"System", "Popen", "Fork", "Start", "StartArgs", "Spawn", "TopLevel",
     "QuietPortableLauncher"}

\* the names a caller can construct through: the classes and the alias
Names ==
    Classes \cup {"PortableLauncher"}

\* slip: tests the end of sys.platform instead of its first three characters
ResolveDefaultBySuffix(h) ==
    IF Len(h.platform) >= 3
       /\ SubSeq(h.platform, Len(h.platform) - 2, Len(h.platform)) = <<"w", "i", "n">>
    THEN "Spawn" ELSE "Fork"

\* the module-level if/else that binds PortableLauncher
ResolveDefault(h) ==
    IF IsWin(h) THEN "Spawn" ELSE "Fork"

\* slip: the quiet class derives from System instead of the bound default
BaseOfQuietIsSystem(cls, default) ==
    IF cls = "QuietPortableLauncher" THEN "System" ELSE "LaunchMode"

\* the base class of a class; default is the class bound to PortableLauncher
Base(cls, default) ==
    IF cls = "QuietPortableLauncher" THEN default ELSE "LaunchMode"

\* does the class body define the method itself
Defines(cls, method) ==
    CASE cls = "LaunchMode" -> method \in {"__init__", "__call__", "announce"}
      [] cls = "QuietPortableLauncher" -> method = "announce"
      [] OTHER -> method = "run"

\* method resolution: the first class along the base chain that defines it
RECURSIVE Resolve(_, _, _)
Resolve(cls, method, default) ==
    IF Defines(cls, method) THEN cls
    ELSE IF cls = "LaunchMode" THEN None
    ELSE Resolve(Base(cls, default), method, default)


\* ------------------------------------------------------------------ state
VARIABLES
    host,            \* the environment the module was imported in
    PortableLauncher,\* the class bound to the module-level name
    obj,             \* the instance the caller holds: [cls, what, where], or NoObj
    pc,              \* where the calling process is
    events,          \* the methods __call__ has entered in the current invocation
    stdout,          \* what print has written, tagged with the invocation
    oscalls,         \* the os calls the calling process has issued, in order
    children,        \* the processes os.fork has created
    invocations,     \* the instance of each invocation, in order
    constructions,   \* how many instances have been constructed
    outcome,         \* how each invocation left __call__, in order
    cmdline,         \* argument of a direct call of fixWindowsPath
    fixed            \* the results it has returned, in order

vars ==
    <<host, PortableLauncher, obj, pc, events, stdout, oscalls, children,
      invocations, constructions, outcome, cmdline, fixed>>

Commands == StringsUpTo(MaxCmdLen)
RUN == <<"r", "u", "n">>

\* the (label, command) pairs a caller constructs with
Requests ==
    { [label |-> <<>>, command |-> <<>>],
      [label |-> RUN, command |-> <<"a", "/", " ", "a">>] }
AllRequests ==
    { [label |-> RUN, command |-> c] : c \in Commands }

NoObj == [cls |-> None, what |-> <<>>, where |-> <<>>]
NoOutcome == [kind |-> "none", exc |-> "", msg |-> ""]
Returned == [kind |-> "returned", exc |-> "", msg |-> ""]
Raised(exc, msg) == [kind |-> "raised", exc |-> exc, msg |-> msg]

\* the state right after the module has been imported on some host
Init ==
    /\ host \in Hosts
    /\ PortableLauncher = ResolveDefault(host)
    /\ obj = NoObj
    /\ pc = "idle"
    /\ events = <<>>
    /\ stdout = <<>>
    /\ oscalls = <<>>
    /\ children = <<>>
    /\ invocations = <<>>
    /\ constructions = 0
    /\ outcome = <<>>
    /\ cmdline = <<>>
    /\ fixed = <<>>

\* the record of one os call of the calling process
OsCall(fn, file, args) ==
    [inv |-> Len(invocations), fn |-> fn, file |-> file, args |-> args]

\* LaunchMode.__init__, reached through any class name or the alias
ConstructFrom(requests, cap) ==
    /\ pc = "idle"
    /\ constructions < cap
    /\ \E name \in Names, r \in requests :
          obj' = [cls |-> IF name = "PortableLauncher" THEN PortableLauncher ELSE name,
                  what |-> r.label, where |-> r.command]
    /\ constructions' = constructions + 1
    /\ UNCHANGED <<host, PortableLauncher, pc, events, stdout, oscalls, children,
                   invocations, outcome, cmdline, fixed>>

\* slip: __call__ goes straight to run
CallUpToSkippingAnnounce(cap) ==
    /\ pc = "idle"
    /\ obj # NoObj
    /\ Len(invocations) < cap
    /\ invocations' = Append(invocations, obj)
    /\ events' = <<>>
    /\ outcome' = Append(outcome, NoOutcome)
    /\ pc' = "run"
    /\ UNCHANGED <<host, PortableLauncher, obj, stdout, oscalls, children,
                   constructions, cmdline, fixed>>

\* LaunchMode.__call__ is entered
CallUpTo(cap) ==
    /\ pc = "idle"
    /\ obj # NoObj
    /\ Len(invocations) < cap
    /\ invocations' = Append(invocations, obj)
    /\ events' = <<>>
    /\ outcome' = Append(outcome, NoOutcome)
    /\ pc' = "announce"
    /\ UNCHANGED <<host, PortableLauncher, obj, stdout, oscalls, children,
                   constructions, cmdline, fixed>>

\* self.announce(self.what): LaunchMode.announce prints, the quiet one passes
Announce ==
    /\ pc = "announce"
    /\ events' = Append(events, "announce")
    /\ stdout' = IF Resolve(obj.cls, "announce", PortableLauncher) = "LaunchMode"
                 THEN Append(stdout, [inv |-> Len(invocations), text |-> obj.what])
                 ELSE stdout
    /\ pc' = "run"
    /\ UNCHANGED <<host, PortableLauncher, obj, oscalls, children, invocations,
                   constructions, outcome, cmdline, fixed>>

\* self.run(self.where) dispatches to the run of class cls
Dispatch(cls) ==
    /\ pc = "run"
    /\ Resolve(obj.cls, "run", PortableLauncher) = cls
    /\ events' = Append(events, "run")

\* run returns and so does __call__
Return ==
    /\ pc' = "idle"
    /\ outcome' = [outcome EXCEPT ![Len(outcome)] = Returned]

\* an exception leaves run and __call__
Raise(exc, msg) ==
    /\ pc' = "raised"
    /\ outcome' = [outcome EXCEPT ![Len(outcome)] = Raised(exc, msg)]

\* slip: System.run hands the command to the shell as given
SystemRunRaw ==
    /\ Dispatch("System")
    /\ oscalls' = Append(oscalls, OsCall("system", <<>>,
                     <<pypath(host) \o SP \o obj.where>>))
    /\ Return
    /\ UNCHANGED <<host, PortableLauncher, obj, stdout, children, invocations,
                   constructions, cmdline, fixed>>

SystemRun ==
    /\ Dispatch("System")
    /\ oscalls' = Append(oscalls, OsCall("system", <<>>,
                     <<pypath(host) \o SP \o fixWindowsPath(host, obj.where)>>))
    /\ Return
    /\ UNCHANGED <<host, PortableLauncher, obj, stdout, children, invocations,
                   constructions, cmdline, fixed>>

PopenRun ==
    /\ Dispatch("Popen")
    /\ oscalls' = Append(oscalls, OsCall("popen", <<>>,
                     <<pypath(host) \o SP \o fixWindowsPath(host, obj.where)>>))
    /\ Return
    /\ UNCHANGED <<host, PortableLauncher, obj, stdout, children, invocations,
                   constructions, cmdline, fixed>>

\* Fork.run up to and including os.fork(): both processes hold the split cmdline
ForkRun ==
    /\ Dispatch("Fork")
    /\ IF ~host.fork
       THEN /\ Raise("AssertionError", "")
            /\ UNCHANGED <<oscalls, children>>
       ELSE /\ oscalls' = Append(oscalls, OsCall("fork", <<>>, <<>>))
            /\ children' = Append(children,
                              [inv |-> Len(invocations), status |-> "forked",
                               cmdline |-> SplitWs(obj.where), execs |-> <<>>])
            /\ pc' = "forked"
            /\ UNCHANGED outcome
    /\ UNCHANGED <<host, PortableLauncher, obj, stdout, invocations,
                   constructions, cmdline, fixed>>

\* in the parent os.fork() is not 0: run falls off its end
ForkParentReturn ==
    /\ pc = "forked"
    /\ Return
    /\ UNCHANGED <<host, PortableLauncher, obj, events, stdout, oscalls, children,
                   invocations, constructions, cmdline, fixed>>

\* slip: the program path is run through normpath before execvp
ExecCallNormalized(i) ==
    [fn |-> "execvp", file |-> pypath(host),
     args |-> <<pyfile(host)>> \o
              (IF children[i].cmdline = <<>> THEN <<>>
               ELSE <<normpath(host, Head(children[i].cmdline))>>
                    \o Tail(children[i].cmdline))]

\* the os.execvp call of child i
ExecCall(i) ==
    [fn |-> "execvp", file |-> pypath(host),
     args |-> <<pyfile(host)>> \o children[i].cmdline]

\* in the child os.fork() is 0 and os.execvp replaces the image
ChildExec(i) ==
    /\ children[i].status = "forked"
    /\ children' = [children EXCEPT ![i].status = "replaced",
                                    ![i].execs = <<ExecCall(i)>>]
    /\ UNCHANGED <<host, PortableLauncher, obj, pc, events, stdout, oscalls,
                   invocations, constructions, outcome, cmdline, fixed>>

\* os.execvp fails: OSError leaves run and __call__ in the child
ChildExecFails(i) ==
    /\ children[i].status = "forked"
    /\ children' = [children EXCEPT ![i].status = "raised",
                                    ![i].execs = <<ExecCall(i)>>]
    /\ UNCHANGED <<host, PortableLauncher, obj, pc, events, stdout, oscalls,
                   invocations, constructions, outcome, cmdline, fixed>>

StartRun ==
    /\ Dispatch("Start")
    /\ IF ~IsWin(host)
       THEN /\ Raise("AssertionError", "")
            /\ UNCHANGED oscalls
       ELSE IF ~host.startfile
       THEN /\ Raise("AttributeError", "startfile")
            /\ UNCHANGED oscalls
       ELSE /\ oscalls' = Append(oscalls, OsCall("startfile", <<>>,
                             <<fixWindowsPath(host, obj.where)>>))
            /\ Return
    /\ UNCHANGED <<host, PortableLauncher, obj, stdout, children, invocations,
                   constructions, cmdline, fixed>>

\* slip: StartArgs.run without its platform assertion
StartArgsRunUnchecked ==
    /\ Dispatch("StartArgs")
    /\ oscalls' = Append(oscalls, OsCall("system", <<>>,
                     <<<<"s", "t", "a", "r", "t", " ">> \o obj.where>>))
    /\ Return
    /\ UNCHANGED <<host, PortableLauncher, obj, stdout, children, invocations,
                   constructions, cmdline, fixed>>

StartArgsRun ==
    /\ Dispatch("StartArgs")
    /\ IF ~IsWin(host)
       THEN /\ Raise("AssertionError", "")
            /\ UNCHANGED oscalls
       ELSE /\ oscalls' = Append(oscalls, OsCall("system", <<>>,
                             <<<<"s", "t", "a", "r", "t", " ">> \o obj.where>>))
            /\ Return
    /\ UNCHANGED <<host, PortableLauncher, obj, stdout, children, invocations,
                   constructions, cmdline, fixed>>

\* os.P_DETACH is an attribute of os on Windows only
SpawnRun ==
    /\ Dispatch("Spawn")
    /\ IF ~host.P_DETACH
       THEN /\ Raise("AttributeError", "P_DETACH")
            /\ UNCHANGED oscalls
       ELSE /\ oscalls' = Append(oscalls, OsCall("spawnv", pypath(host),
                             <<pyfile(host), obj.where>>))
            /\ Return
    /\ UNCHANGED <<host, PortableLauncher, obj, stdout, children, invocations,
                   constructions, cmdline, fixed>>

\* slip: TopLevel.run is left as a plain pass
TopLevelRunPasses ==
    /\ Dispatch("TopLevel")
    /\ Return
    /\ UNCHANGED <<host, PortableLauncher, obj, stdout, oscalls, children,
                   invocations, constructions, cmdline, fixed>>

TopLevelRun ==
    /\ Dispatch("TopLevel")
    /\ Raise("AssertionError", "Mode not yet implemented.")
    /\ UNCHANGED <<host, PortableLauncher, obj, stdout, oscalls, children,
                   invocations, constructions, cmdline, fixed>>

\* the caller of __call__ handles the exception and goes on
CallerCatches ==
    /\ pc = "raised"
    /\ pc' = "idle"
    /\ UNCHANGED <<host, PortableLauncher, obj, events, stdout, oscalls, children,
                   invocations, constructions, outcome, cmdline, fixed>>

\* nothing handles the exception: the interpreter exits with a traceback
CallerDies ==
    /\ pc = "raised"
    /\ pc' = "exited"
    /\ UNCHANGED <<host, PortableLauncher, obj, events, stdout, oscalls, children,
                   invocations, constructions, outcome, cmdline, fixed>>

\* the same two ends for the OSError in child i, which runs the caller's code too
ChildCatches(i) ==
    /\ children[i].status = "raised"
    /\ children' = [children EXCEPT ![i].status = "continuing"]
    /\ UNCHANGED <<host, PortableLauncher, obj, pc, events, stdout, oscalls,
                   invocations, constructions, outcome, cmdline, fixed>>

ChildDies(i) ==
    /\ children[i].status = "raised"
    /\ children' = [children EXCEPT ![i].status = "exited"]
    /\ UNCHANGED <<host, PortableLauncher, obj, pc, events, stdout, oscalls,
                   invocations, constructions, outcome, cmdline, fixed>>

Construct == ConstructFrom(Requests, MaxConstructions)
Call == CallUpTo(MaxInvocations)
ChildExecs == \E i \in 1..Len(children) : ChildExec(i)
ChildExecFailure == \E i \in 1..Len(children) : ChildExecFails(i)
ChildCatch == \E i \in 1..Len(children) : ChildCatches(i)
ChildDeath == \E i \in 1..Len(children) : ChildDies(i)

Steps ==
    \/ Announce
    \/ SystemRun
    \/ PopenRun
    \/ ForkRun
    \/ ForkParentReturn
    \/ ChildExecs
    \/ ChildExecFailure
    \/ StartRun
    \/ StartArgsRun
    \/ SpawnRun
    \/ TopLevelRun
    \/ CallerCatches
    \/ CallerDies
    \/ ChildCatch
    \/ ChildDeath

Next ==
    \/ Construct
    \/ Call
    \/ Steps

Spec == Init /\ [][Next]_vars

\* one instance, invoked once, over every command line up to MaxCmdLen
ConstructAny == ConstructFrom(AllRequests, 1)
CallOnce == CallUpTo(1)

NextArgs ==
    \/ ConstructAny
    \/ CallOnce
    \/ Steps

SpecArgs == Init /\ [][NextArgs]_vars

\* fixWindowsPath called directly on every command line up to MaxCmdLen
InitNorm ==
    /\ host \in Hosts
    /\ PortableLauncher = ResolveDefault(host)
    /\ obj = NoObj
    /\ pc = "idle"
    /\ events = <<>>
    /\ stdout = <<>>
    /\ oscalls = <<>>
    /\ children = <<>>
    /\ invocations = <<>>
    /\ constructions = 0
    /\ outcome = <<>>
    /\ cmdline \in Commands
    /\ fixed = <<>>

ApplyFix ==
    /\ fixed = <<>>
    /\ fixed' = <<fixWindowsPath(host, cmdline)>>
    /\ UNCHANGED <<host, PortableLauncher, obj, pc, events, stdout, oscalls, children,
                   invocations, constructions, outcome, cmdline>>

NextNorm ==
    ApplyFix

SpecNorm == InitNorm /\ [][NextNorm]_vars


\* ----------------------------------------------------------------- claims
\* the number of the current (or last) invocation, 0 before the first
k == Len(invocations)

CallsOf(n) == SelectSeq(oscalls, LAMBDA c : c.inv = n)
PrintsOf(n) == SelectSeq(stdout, LAMBDA o : o.inv = n)
ChildrenOf(n) == SelectSeq(children, LAMBDA c : c.inv = n)

\* an os call without its invocation tag
Untag(c) == [fn |-> c.fn, file |-> c.file, args |-> c.args]
Untagged(calls) == [i \in 1..Len(calls) |-> Untag(calls[i])]

\* invocation n has left run in the calling process
Left(n) == n \in 1..k /\ outcome[n].kind # "none"

\* the platform family of the host, as the os module sees it
WindowsLike == host.nt

\* C1: in every invocation announce comes first and run second, run is entered
\* at most once, and the calling process issues an os call or gets a child only
\* in the step that enters run, after announce has completed.
C1_AnnounceThenRun ==
    [][ /\ events' \in {<<>>, <<"announce">>, <<"announce", "run">>}
        /\ (oscalls' # oscalls \/ Len(children') # Len(children))
              => /\ events = <<"announce">>
                 /\ events' = <<"announce", "run">>
                 /\ invocations' = invocations
                 /\ \A c \in {oscalls'[i] : i \in (Len(oscalls) + 1)..Len(oscalls')} :
                       c.inv = k
        /\ \A i \in 1..Len(children) :
              children'[i].execs # children[i].execs
                 => \E c \in {oscalls[j] : j \in 1..Len(oscalls)} :
                       c.fn = "fork" /\ c.inv = children[i].inv ]_vars

C1_Witness ==
    /\ events = <<"announce", "run">>
    /\ CallsOf(k) # <<>>
    /\ PrintsOf(k) # <<>>

\* the platform precondition of a class, as the claim C2 uses the word
PreconditionHolds(cls) ==
    LET impl == Resolve(cls, "run", PortableLauncher)
    IN  CASE impl \in {"Start", "StartArgs"} -> WindowsLike
          [] impl = "Fork" -> host.fork
          [] impl = "TopLevel" -> FALSE
          [] OTHER -> TRUE

\* C2: construction prints nothing and issues no os call, and whenever the
\* calling process is outside __call__ the number of launch calls it has issued
\* equals the number of invocations of instances whose precondition holds.
C2_LaunchesEqualInvocations ==
    /\ k = 0 => (oscalls = <<>> /\ stdout = <<>> /\ children = <<>>)
    /\ pc \in {"idle", "raised", "exited"}
          => Len(oscalls) =
                Cardinality({n \in 1..k : PreconditionHolds(invocations[n].cls)})

\* C3: the default is Spawn exactly on a Windows-like host and Fork otherwise,
\* and no step of any instance changes the binding.
C3_DefaultBinding ==
    /\ [](/\ PortableLauncher \in {"Spawn", "Fork"}
          /\ PortableLauncher = "Spawn" <=> WindowsLike)
    /\ [][PortableLauncher' = PortableLauncher]_vars

C3_Witness ==
    /\ constructions > 0
    /\ Left(k)
    /\ PortableLauncher = "Fork"
    /\ host.platform = <<"c", "y", "g", "w", "i", "n">>

\* the invocation is one whose platform precondition fails
PreconditionFails(cls) ==
    \/ cls \in {"Start", "StartArgs"} /\ ~WindowsLike
    \/ cls = "Fork" /\ ~host.fork

\* C4: an invocation of Start or StartArgs off Windows, or of Fork without
\* os.fork, issues no os call and creates no process, and leaves __call__ with
\* the AssertionError of the precondition.
C4_PreconditionBeforeOsCall ==
    \A n \in 1..k :
        PreconditionFails(invocations[n].cls)
           => /\ CallsOf(n) = <<>>
              /\ ChildrenOf(n) = <<>>
              /\ (n < k \/ events = <<"announce", "run">>)
                    => outcome[n] = Raised("AssertionError", "")

C4_Witness ==
    /\ Left(k)
    /\ invocations[k].cls = "StartArgs"
    /\ ~WindowsLike
    /\ outcome[k].kind = "raised"

\* C5: an invocation of TopLevel leaves __call__ with the not-implemented
\* AssertionError, whatever the label, the command and the host, and issues no
\* os call.
C5_TopLevelAlwaysFails ==
    \A n \in 1..k :
        invocations[n].cls = "TopLevel"
           => /\ CallsOf(n) = <<>>
              /\ ChildrenOf(n) = <<>>
              /\ (n < k \/ events = <<"announce", "run">>)
                    => outcome[n] = Raised("AssertionError", "Mode not yet implemented.")

C5_Witness ==
    /\ Left(k)
    /\ invocations[k].cls = "TopLevel"
    /\ invocations[k].what = <<>>
    /\ invocations[k].where = <<>>
    /\ outcome[k].kind = "raised"

\* invocation i is of the quiet class and j of the default, on the same pair
QuietAndDefault(i, j) ==
    /\ invocations[i].cls = "QuietPortableLauncher"
    /\ invocations[j].cls = PortableLauncher
    /\ invocations[i].what = invocations[j].what
    /\ invocations[i].where = invocations[j].where
    /\ Left(i)
    /\ Left(j)

\* C6: a finished invocation of the quiet class and one of the default class on
\* the same (label, command) issued the same os calls with the same arguments,
\* left __call__ the same way and gave their children the same exec arguments,
\* and the quiet one printed nothing.
C6_QuietSameLaunch ==
    \A i, j \in 1..k :
        QuietAndDefault(i, j)
           => /\ Untagged(CallsOf(i)) = Untagged(CallsOf(j))
              /\ outcome[i] = outcome[j]
              /\ PrintsOf(i) = <<>>
              /\ Len(ChildrenOf(i)) = Len(ChildrenOf(j))
              /\ \A n \in 1..Len(ChildrenOf(i)) :
                    LET c == ChildrenOf(i)[n]
                        d == ChildrenOf(j)[n]
                    IN  /\ c.cmdline = d.cmdline
                        /\ (c.execs # <<>> /\ d.execs # <<>>) => c.execs = d.execs

C6_Witness ==
    \E i, j \in 1..k :
        /\ QuietAndDefault(i, j)
        /\ CallsOf(i) # <<>>
        /\ PrintsOf(j) # <<>>
        /\ ChildrenOf(i) # <<>>
        /\ ChildrenOf(i)[1].execs # <<>>
        /\ ChildrenOf(j)[1].execs # <<>>


\* the command line has the shape  p a1 ... an : non-empty tokens, single spaces
WellFormed(c) ==
    \A i \in 1..Len(SplitOn(c, " ")) : SplitOn(c, " ")[i] # <<>>

\* C7: for a command line p a1 ... an, the result of fixWindowsPath splits on
\* spaces into the canonical form of p followed by a1 ... an, one token each.
C7_HeadAndArguments ==
    \A i \in 1..Len(fixed) :
        WellFormed(cmdline)
           => SplitOn(fixed[i], " ") =
                 <<normpath(host, SplitOn(cmdline, " ")[1])>> \o Tail(SplitOn(cmdline, " "))

\* invocation n is of the default class on a host with os.fork that is not
\* Windows-like, and it has entered run
DefaultForked(n) ==
    /\ ~WindowsLike
    /\ host.fork
    /\ invocations[n].cls = PortableLauncher
    /\ (n < k \/ events = <<"announce", "run">>)

\* what holds of such an invocation apart from the exec arguments
ForkShape(n) ==
    /\ Untagged(CallsOf(n)) = <<[fn |-> "fork", file |-> <<>>, args |-> <<>>]>>
    /\ Len(ChildrenOf(n)) = 1
    /\ \A i \in 1..Len(oscalls) : oscalls[i].fn # "execvp"
    /\ \A i \in 1..Len(ChildrenOf(n)[1].execs) :
          /\ ChildrenOf(n)[1].execs[i].fn = "execvp"
          /\ ChildrenOf(n)[1].execs[i].file = host.executable
    /\ (n = k /\ pc = "forked") => ENABLED ForkParentReturn
    /\ Left(n) => outcome[n] = Returned

\* C8 as amended: such an invocation forks exactly once, only the child calls
\* execvp, on the interpreter, with the interpreter's name followed by the
\* whitespace-separated tokens of the command exactly as written; the parent
\* calls no execvp and returns whatever the child is doing.
C8_ForkExecTokens ==
    \A n \in 1..k :
        DefaultForked(n)
           => /\ ForkShape(n)
              /\ \A i \in 1..Len(ChildrenOf(n)[1].execs) :
                    ChildrenOf(n)[1].execs[i].args =
                       <<<<"p", "y", "t", "h", "o", "n">>>> \o SplitWs(invocations[n].where)

\* C8 as stated: the arguments are the path-normalized p followed by a1 ... an.
C8_ForkExecNormalized ==
    \A n \in 1..k :
        (DefaultForked(n) /\ SplitWs(invocations[n].where) # <<>>)
           => /\ ForkShape(n)
              /\ \A i \in 1..Len(ChildrenOf(n)[1].execs) :
                    Tail(ChildrenOf(n)[1].execs[i].args) =
                       <<PosixNormpath(Head(SplitWs(invocations[n].where)))>>
                          \o Tail(SplitWs(invocations[n].where))

C8_Witness ==
    /\ k > 0
    /\ DefaultForked(k)
    /\ pc = "idle"
    /\ outcome[k] = Returned
    /\ ChildrenOf(k)[1].status = "replaced"
    /\ Len(ChildrenOf(k)[1].execs[1].args) = 3

\* C9: a child of os.fork never goes on in the caller's code: it is replaced,
\* or it ends when execvp fails.
C9_ChildNeverReturns ==
    \A i \in 1..Len(children) : children[i].status # "continuing"

\* invocation n has entered run
Ran(n) == n < k \/ events = <<"announce", "run">>

\* the os calls of System, Popen, Start, StartArgs and Spawn for claim C10
C10_ShellAndStart(n) ==
    LET o == invocations[n]
        norm == fixWindowsPath(host, o.where)
        shell(fn) == <<[fn |-> fn, file |-> <<>>,
                        args |-> <<host.executable \o <<" ">> \o norm>>]>>
    IN  /\ o.cls = "System" => Untagged(CallsOf(n)) = shell("system")
        /\ o.cls = "Popen" => Untagged(CallsOf(n)) = shell("popen")
        /\ o.cls = "Start" =>
              \A i \in 1..Len(CallsOf(n)) :
                  /\ CallsOf(n)[i].fn = "startfile"
                  /\ CallsOf(n)[i].args = <<norm>>
        /\ o.cls = "StartArgs" =>
              \A i \in 1..Len(CallsOf(n)) :
                  CallsOf(n)[i].args = <<<<"s", "t", "a", "r", "t", " ">> \o o.where>>
        /\ o.cls = "Spawn" =>
              \A i \in 1..Len(CallsOf(n)) :
                  /\ CallsOf(n)[i].fn = "spawnv"
                  /\ Len(CallsOf(n)[i].args) = 2
                  /\ CallsOf(n)[i].args[2] = o.where

\* C10 as amended: System, Popen and Start hand the os the result of
\* fixWindowsPath; StartArgs and Spawn hand it the command text as constructed;
\* Fork hands execvp the whitespace-separated tokens of the command, each as
\* written.
C10_WhoNormalizes ==
    \A n \in 1..k :
        Ran(n)
           => /\ C10_ShellAndStart(n)
              /\ invocations[n].cls = "Fork" =>
                    \A c \in 1..Len(ChildrenOf(n)) :
                       \A i \in 1..Len(ChildrenOf(n)[c].execs) :
                          Tail(ChildrenOf(n)[c].execs[i].args) = SplitWs(invocations[n].where)

\* C10 as stated: Fork, too, hands its os call the command text as constructed.
C10_ForkTextAsGiven ==
    \A n \in 1..k :
        Ran(n)
           => /\ C10_ShellAndStart(n)
              /\ invocations[n].cls = "Fork" =>
                    \A c \in 1..Len(ChildrenOf(n)) :
                       \A i \in 1..Len(ChildrenOf(n)[c].execs) :
                          Join(Tail(ChildrenOf(n)[c].execs[i].args), <<" ">>)
                             = invocations[n].where

C10_Witness ==
    /\ Left(k)
    /\ invocations[k].cls = "System"
    /\ CallsOf(k) # <<>>
    /\ fixWindowsPath(host, invocations[k].where) # invocations[k].where
    /\ Len(SplitWs(invocations[k].where)) = 1

====
